---- MODULE Spec2Model ----
(***************************************************************************)
(* Model of the mini-mixlr relay (src/main.go): the room registry, the     *)
(* join handler, the signaling loop, the connection-state and track        *)
(* callbacks and the track forwarder.                                      *)
(*                                                                         *)
(* Every HTTP request runs in its own goroutine, so a handler is split     *)
(* into steps at the points where it touches shared state (the registry,   *)
(* a Room's fields, a Room's lock, a track, a transport).  The media       *)
(* endpoint (pion PeerConnection) and the peers are the environment: they  *)
(* deliver frames, close transports, report tracks, packets, candidates    *)
(* and connection states whenever the registered callbacks allow it; the   *)
(* endpoint's own negotiation state does not gate them.                    *)
(*                                                                         *)
(* joinRoom reads room.Broadcaster without room.mu (line 88) while another *)
(* handler may write it under the lock (line 101): the read is its own     *)
(* step and sees the value before or after any such write.                 *)
(***************************************************************************)
EXTENDS Integers, Sequences, FiniteSets, TLC

\* ------------------------------------------------------------------ bounds
MaxSessions == 3      \* sessions (join handlers and their endpoints) at once
MaxJoins == 2         \* join requests observed from the empty registry on
MaxRooms == 2         \* createRoom requests observed
MaxEvents == 2        \* events of the peers and endpoints observed: frames read,
                      \* candidates found, tracks reported, packets sent,
                      \* endpoints failed

Sessions == 1..MaxSessions
Joiners == 1..MaxJoins     \* the sessions that arrive as join requests
RoomObjs == 1..MaxRooms
Nil == 0              \* the nil *webrtc.PeerConnection / absent value

\* --------------------------------------------------------------- randomHex
HexDigits == <<"0","1","2","3","4","5","6","7","8","9","a","b","c","d","e","f">>

\* hex.EncodeToString of one byte: two lower-case digits.
EncodeByte(b) == HexDigits[(b \div 16) + 1] \o HexDigits[(b % 16) + 1]

RECURSIVE EncodeToString(_)
EncodeToString(bytes) ==
    IF bytes = <<>> THEN ""
    ELSE EncodeByte(Head(bytes)) \o EncodeToString(Tail(bytes))

\* createRoom calls randomHex(6).
RoomIdBytes == 6

\* The k-th distinct outcome of rand.Read on a buffer of n bytes (a sample of
\* the 256^n outcomes).
RandBytes(n, k) == [i \in 1..n |-> IF i = n THEN k * 17 ELSE 171]

\* What rand.Read may leave in the buffer when `drawn` distinct outcomes have
\* been seen: any of them again, or a new one.  The outcomes are opaque, so
\* new ones are taken in a fixed order.
RandRead(n, drawn) == { RandBytes(n, k) : k \in 1..(drawn + 1) }

randomHex(n, drawn) == { EncodeToString(bytes) : bytes \in RandRead(n, drawn) }

\* Path suffixes a join request may carry: every id createRoom can return,
\* and one id it never returns.
JoinNames == randomHex(RoomIdBytes, MaxRooms - 1) \cup {"nosuchroom"}

\* -------------------------------------------------------------- JSON frames
\* A JSON value as the peer wrote it.
JString(v) == [kind |-> "string", val |-> v]
JObject(v) == [kind |-> "object", val |-> v]
JAbsent == [kind |-> "absent", val |-> ""]

\* json.RawMessage keeps the bytes of the value as they stand in the text:
\* a string keeps its quotes, an absent key leaves the nil slice.
RawMessage(j) ==
    CASE j.kind = "string" -> "\"" \o j.val \o "\""
      [] j.kind = "object" -> "{" \o j.val \o "}"
      [] OTHER -> ""

\* Inbound text frames.  syntax = FALSE: the text is not a JSON object.
Frame(syn, t, sdp, cand) == [syntax |-> syn, type |-> t, sdp |-> sdp, candidate |-> cand]

GarbageFrame == Frame(FALSE, JAbsent, JAbsent, JAbsent)
OfferFrame == Frame(TRUE, JString("offer"), JObject("sdp"), JAbsent)
BadOfferFrame == Frame(TRUE, JString("offer"), JString("sdp"), JAbsent)
AnswerFrame == Frame(TRUE, JString("answer"), JObject("sdp"), JAbsent)
CandidateFrame == Frame(TRUE, JString("candidate"), JAbsent, JObject("candidate"))
NoFrame == Frame(FALSE, JAbsent, JAbsent, JAbsent)

Frames == {GarbageFrame, OfferFrame, BadOfferFrame, AnswerFrame, CandidateFrame}

\* json.Unmarshal(msg, &msgMap): fails unless the text is a JSON object.
UnmarshalMap(f) == f.syntax

\* json.Unmarshal(raw, &SessionDescription / &ICECandidateInit): the target is
\* a struct, so only a JSON object parses.
UnmarshalStruct(j) == j.kind = "object"

\* What the endpoint answers to the negotiation calls a frame leads to.
NegOutcomes == {"ok", "failRemote", "failCreate", "failLocal"}

\* What ws.ReadMessage can return: a frame, and the endpoint's answer to it.
Inputs ==
    {<<f, "ok">> : f \in Frames} \cup {<<OfferFrame, n>> : n \in NegOutcomes}

\* Frames the server writes.
ErrorFrameOther == [type |-> "error", body |-> "already broadcasting"]

ErrorFrame == [type |-> "error", body |-> "Room already has a broadcaster"]
AnswerOut == [type |-> "answer", body |-> "sdp"]
CandidateOut == [type |-> "candidate", body |-> "candidate"]

\* Media packets of a track, in the order the publisher produces them.
Packet(k) == [seq |-> k, len |-> 100 + k, dur |-> 20]

VARIABLES
    rooms,        \* the registry: room id -> Room object
    returned,     \* ids createRoom has answered with, in order
    roomsMu,      \* the registry's lock: writer and readers
    Broadcaster,  \* Room.Broadcaster of each Room object (Nil or a session's pc)
    Listeners,    \* Room.Listeners of each Room object
    mu,           \* Room.mu of each Room object: writer and readers
    pc,           \* where each join handler stands
    req,          \* each join request: path suffix, role, Room found, status
    ws,           \* each session's signaling transport
    conn,         \* each session's PeerConnection
    cb,           \* each session's connection-state callbacks in flight
    sig,          \* each session's signaling loop: the frame in hand
    sent,         \* frames written to each session's transport, in order
    ice,          \* each session's OnICECandidate callback: idle or in its write
    nevents,      \* events of the peers and endpoints so far
    track,        \* the inbound track of each publisher session
    fwd           \* forwardTrack task per (publisher, listener)

regv == <<rooms, returned, roomsMu>>
roomv == <<Broadcaster, Listeners>>
sessv == <<pc, req, ws>>
sigv == <<sig, sent, ice, nevents>>
mediav == <<track, fwd>>
vars == <<rooms, returned, roomsMu, Broadcaster, Listeners, mu, pc, req, ws, conn, cb, sig, sent,
          ice, nevents, track, fwd>>

NoLock == [w |-> << >>, r |-> {}]
NoRegLock == [w |-> FALSE, r |-> {}]
NoReq == [name |-> "", isBroadcaster |-> FALSE, room |-> Nil, status |-> 0]
NoSig == [cur |-> NoFrame, neg |-> "ok", dropped |-> FALSE]
NoConn == [state |-> "none", handlers |-> {}, remote |-> FALSE, local |-> FALSE, candidates |-> 0]
NoCb == [failed |-> "none", closed |-> "none"]
NoTrack == [state |-> "none", queue |-> << >>, produced |-> 0, closed |-> FALSE]
NoFwd == [pc |-> "none", pkt |-> Nil, out |-> << >>, werr |-> FALSE]

Init ==
    /\ rooms = << >>
    /\ returned = << >>
    /\ roomsMu = NoRegLock
    /\ Broadcaster = [o \in RoomObjs |-> Nil]
    /\ Listeners = [o \in RoomObjs |-> {}]
    /\ mu = [o \in RoomObjs |-> NoLock]
    /\ pc = [s \in Sessions |-> "idle"]
    /\ req = [s \in Sessions |-> NoReq]
    /\ ws = [s \in Sessions |-> "none"]
    /\ conn = [s \in Sessions |-> NoConn]
    /\ cb = [s \in Sessions |-> NoCb]
    /\ sig = [s \in Sessions |-> NoSig]
    /\ sent = [s \in Sessions |-> << >>]
    /\ ice = [s \in Sessions |-> "none"]
    /\ nevents = 0
    /\ track = [s \in Sessions |-> NoTrack]
    /\ fwd = [s \in Sessions |-> [l \in Sessions |-> NoFwd]]

\* -------------------------------------------------------------- createRoom
NumRoomObjs == Len(returned)

\* Lines 38-39: a createRoom request draws its id and takes roomsMu.Lock().
createRoomLock ==
    /\ NumRoomObjs < MaxRooms
    /\ roomsMu = NoRegLock
    /\ roomsMu' = [roomsMu EXCEPT !.w = TRUE]
    /\ UNCHANGED <<rooms, returned, roomv, mu, sessv, conn, cb, sigv, mediav>>

\* Lines 40-51: the new Room is stored under roomID, whatever was there, the
\* lock is released and the id is answered.
createRoom(roomID) ==
    /\ roomsMu.w
    /\ roomID \in randomHex(RoomIdBytes, Cardinality(DOMAIN rooms))
    /\ rooms' = [n \in DOMAIN rooms \cup {roomID} |->
                    IF n = roomID THEN NumRoomObjs + 1 ELSE rooms[n]]
    /\ returned' = Append(returned, roomID)
    /\ roomsMu' = [roomsMu EXCEPT !.w = FALSE]
    /\ UNCHANGED <<roomv, mu, sessv, conn, cb, sigv, mediav>>

\* ---------------------------------------------------------------- joinRoom
SetPc(s, v) == pc' = [pc EXCEPT ![s] = v]

\* Line 56: room, exists := rooms[roomName]; a missing key reads as (nil, false).
LookupIgnoreExists(name) == <<IF name \in DOMAIN rooms THEN rooms[name] ELSE Nil, TRUE>>

Lookup(name) == IF name \in DOMAIN rooms THEN <<rooms[name], TRUE>> ELSE <<Nil, FALSE>>

\* Lines 54-55: the request arrives and takes roomsMu.RLock().  Requests are
\* numbered in arrival order.
joinRLock(s) ==
    /\ pc[s] = "idle"
    /\ s \in Joiners
    /\ IF s = 1 THEN TRUE ELSE pc[s - 1] # "idle"
    /\ ~roomsMu.w
    /\ roomsMu' = [roomsMu EXCEPT !.r = @ \cup {s}]
    /\ SetPc(s, "lookup")
    /\ UNCHANGED <<rooms, returned, roomv, mu, req, ws, conn, cb, sigv, mediav>>

\* Lines 56-83: the registry lookup, roomsMu.RUnlock() and the 404 answer;
\* then, with no lock held, the transport upgrade and the endpoint's
\* construction, either of which may fail.  ws.Close and pc.Close are
\* deferred.
joinRoom(s, name, role, upOk, pcOk) ==
    /\ pc[s] = "lookup"
    /\ roomsMu' = [roomsMu EXCEPT !.r = @ \ {s}]
    /\ IF ~Lookup(name)[2]
       THEN /\ req' = [req EXCEPT ![s] = [NoReq EXCEPT !.name = name, !.status = 404]]
            /\ SetPc(s, "done")
            /\ UNCHANGED <<ws, conn>>
       ELSE IF ~upOk
       THEN /\ req' = [req EXCEPT ![s] = [NoReq EXCEPT !.name = name, !.status = 400]]
            /\ SetPc(s, "done")
            /\ UNCHANGED <<ws, conn>>
       ELSE /\ req' = [req EXCEPT ![s] = [name |-> name, isBroadcaster |-> role,
                                           room |-> Lookup(name)[1], status |-> 101]]
            /\ ws' = [ws EXCEPT ![s] = "open"]
            /\ conn' = [conn EXCEPT ![s].state = IF pcOk THEN "new" ELSE "none"]
            /\ SetPc(s, IF pcOk THEN "role" ELSE "closing")
    /\ UNCHANGED <<rooms, returned, roomv, mu, cb, sigv, mediav>>

\* ws.WriteJSON / ws.WriteMessage: the frame reaches the peer only while the
\* transport is open; the code ignores the error otherwise.
Write(s, frame) == IF ws[s] = "open" THEN Append(sent[s], frame) ELSE sent[s]

\* Lines 85-98 (broadcaster) and 125-131 (listener): the read of
\* room.Broadcaster, taken without room.mu, the duplicate-broadcaster error,
\* and the transceiver, which may fail.
RoleCheck(s, txOk) ==
    /\ pc[s] = "role"
    /\ IF req[s].isBroadcaster /\ Broadcaster[req[s].room] # Nil
       THEN /\ sent' = [sent EXCEPT ![s] = Write(s, ErrorFrame)]
            /\ SetPc(s, "closing")
       ELSE /\ SetPc(s, IF txOk THEN "lock" ELSE "closing")
            /\ UNCHANGED sent
    /\ UNCHANGED <<regv, roomv, mu, req, ws, conn, cb, sig, ice, nevents, mediav>>

\* Lines 102, 135 and 142: room.mu.Unlock().
KeepLocked(m) == m

Unlock(m) == [m EXCEPT !.w = << >>]

\* Lines 100 and 133: room.mu.Lock().
AttachLock(s) ==
    /\ pc[s] = "lock"
    /\ mu[req[s].room] = NoLock
    /\ mu' = [mu EXCEPT ![req[s].room].w = <<"join", s>>]
    /\ SetPc(s, "attach")
    /\ UNCHANGED <<regv, roomv, req, ws, conn, cb, sigv, mediav>>

\* Line 134: room.Listeners[pc] = true, on the Room the request looked up.
ListenersAfterInsertAll(s) == [o \in RoomObjs |-> Listeners[o] \cup {s}]

ListenersAfterInsert(s) == [Listeners EXCEPT ![req[s].room] = @ \cup {s}]

\* Lines 101-105 and 134-138: the write of the Room's field and the unlock;
\* then the role's callback (OnTrack or OnConnectionStateChange) and, on
\* entry to handleSignaling (lines 147, 181), OnICECandidate are registered.
Attach(s) ==
    /\ pc[s] = "attach"
    /\ IF req[s].isBroadcaster
       THEN /\ Broadcaster' = [Broadcaster EXCEPT ![req[s].room] = s]
            /\ UNCHANGED Listeners
       ELSE /\ Listeners' = ListenersAfterInsert(s)
            /\ UNCHANGED Broadcaster
    /\ mu' = [mu EXCEPT ![req[s].room] = Unlock(@)]
    /\ conn' = [conn EXCEPT ![s].handlers =
                    IF req[s].isBroadcaster THEN {"track", "ice"} ELSE {"state", "ice"}]
    /\ SetPc(s, "read")
    /\ UNCHANGED <<regv, req, ws, cb, sigv, mediav>>

\* ------------------------------------------------------------ handleSignaling
\* Line 196: ws.ReadMessage() returns the next frame.
ReadMessage(s, in) ==
    /\ pc[s] = "read"
    /\ nevents < MaxEvents
    /\ sig' = [sig EXCEPT ![s] = [@ EXCEPT !.cur = in[1], !.neg = in[2]]]
    /\ nevents' = nevents + 1
    /\ SetPc(s, "handle")
    /\ UNCHANGED <<regv, roomv, mu, req, ws, conn, cb, sent, ice, mediav>>

\* Lines 196-200: ws.ReadMessage() fails (the peer closed the transport, or
\* it broke), the loop breaks and joinRoom returns into its deferred calls.
ReadError(s) ==
    /\ pc[s] = "read"
    /\ SetPc(s, "closing")
    /\ UNCHANGED <<regv, roomv, mu, req, ws, conn, cb, sigv, mediav>>

\* Line 207: msgType := string(msgMap["type"]).
msgType(f) == RawMessage(f.type)

\* Lines 211 and 233: the role a session must have for an offer and for an
\* answer to be taken.
TakesAnyRole(isBroadcaster) == TRUE

TakesOffer(isBroadcaster) == isBroadcaster

TakesAnswer(isBroadcaster) == ~isBroadcaster

\* The switch without its role tests: every offer is negotiated and answered,
\* every answer is applied, whatever the session's role.
SwitchStripped(s, t, f, neg) ==
    LET c == conn[s]
    IN  CASE t = "offer" ->
                <<[c EXCEPT !.remote = (neg # "failRemote") \/ @, !.local = (neg = "ok") \/ @],
                  Write(s, AnswerOut)>>
           [] t = "answer" -> <<[c EXCEPT !.remote = (neg = "ok") \/ @], sent[s]>>
           [] OTHER -> <<c, sent[s]>>

\* Lines 209-248: the switch, entered with msgType = t, over frame f in
\* session s; neg is what the endpoint answers to the calls made.
\* The result is <<conn[s]', sent[s]'>>.
Switch(s, t, f, neg) ==
    LET c == conn[s]
    IN  CASE t = "offer" ->
                IF ~TakesOffer(req[s].isBroadcaster) THEN <<c, sent[s]>>
                ELSE IF ~UnmarshalStruct(f.sdp) THEN <<c, sent[s]>>
                ELSE IF neg = "failRemote" THEN <<c, sent[s]>>
                ELSE IF neg = "failCreate" THEN <<[c EXCEPT !.remote = TRUE], sent[s]>>
                ELSE <<[c EXCEPT !.remote = TRUE, !.local = (neg = "ok") \/ @],
                       Write(s, AnswerOut)>>
           [] t = "answer" ->
                IF ~TakesAnswer(req[s].isBroadcaster) THEN <<c, sent[s]>>
                ELSE IF ~UnmarshalStruct(f.sdp) THEN <<c, sent[s]>>
                ELSE <<[c EXCEPT !.remote = (neg = "ok") \/ @], sent[s]>>
           [] t = "candidate" ->
                IF ~UnmarshalStruct(f.candidate) THEN <<c, sent[s]>>
                ELSE <<[c EXCEPT !.candidates = IF neg = "ok" THEN @ + 1 ELSE @], sent[s]>>
           [] OTHER -> <<c, sent[s]>>

\* Lines 202-248: one pass of the loop body over the frame just read.
\* The result is <<conn[s]', sent[s]'>>.
Dispatch(s, f, neg) ==
    IF ~UnmarshalMap(f) THEN <<conn[s], sent[s]>>
    ELSE Switch(s, msgType(f), f, neg)

\* Lines 195-249: where the loop goes after the body ran over frame f.  Every
\* path through the body is a continue or reaches the end of the switch.
AfterFrameBreak(f) == IF UnmarshalMap(f) THEN "read" ELSE "closing"

AfterFrame(f) == "read"

\* A frame the loop drops: unparseable text, a payload of the wrong shape, or
\* a type the session's role does not take.
Dropped(s, f) ==
    \/ ~UnmarshalMap(f)
    \/ f.type = JString("offer") /\ (~req[s].isBroadcaster \/ ~UnmarshalStruct(f.sdp))
    \/ f.type = JString("answer") /\ (req[s].isBroadcaster \/ ~UnmarshalStruct(f.sdp))
    \/ f.type = JString("candidate") /\ ~UnmarshalStruct(f.candidate)

HandleFrame(s) ==
    /\ pc[s] = "handle"
    /\ conn' = [conn EXCEPT ![s] = Dispatch(s, sig[s].cur, sig[s].neg)[1]]
    /\ sent' = [sent EXCEPT ![s] = Dispatch(s, sig[s].cur, sig[s].neg)[2]]
    /\ sig' = [sig EXCEPT ![s] = [NoSig EXCEPT !.dropped = sig[s].dropped \/ Dropped(s, sig[s].cur)]]
    /\ SetPc(s, AfterFrame(sig[s].cur))
    /\ UNCHANGED <<regv, roomv, mu, req, ws, cb, ice, nevents, mediav>>

\* Lines 181-190: the endpoint reports a local candidate (c = FALSE: the nil
\* candidate that ends gathering, on which the callback returns).  The
\* callback runs on the endpoint's goroutine, one call at a time, and goes
\* into its write.
OnICECandidate(s, c) ==
    /\ "ice" \in conn[s].handlers
    /\ conn[s].state = "new"
    /\ ice[s] = "none"
    /\ nevents < MaxEvents
    /\ nevents' = nevents + 1
    /\ ice' = [ice EXCEPT ![s] = IF c THEN "writing" ELSE @]
    /\ UNCHANGED <<regv, roomv, mu, sessv, conn, cb, sig, sent, mediav>>

\* Line 191: ws.WriteMessage(websocket.TextMessage, candidate) and the return.
CandidateWrite(s) ==
    /\ ice[s] = "writing"
    /\ sent' = [sent EXCEPT ![s] = Write(s, CandidateOut)]
    /\ ice' = [ice EXCEPT ![s] = "none"]
    /\ UNCHANGED <<regv, roomv, mu, sessv, conn, cb, sig, nevents, mediav>>

\* ------------------------------------------------------------ deferred calls
\* Lines 83 and 69: the deferred pc.Close(), then the deferred ws.Close().
\* Closing the endpoint ends its inbound track and reports the closed state
\* to the registered OnConnectionStateChange callback, which runs on its own.
EndAllTracks(s) == [u \in Sessions |-> [track[u] EXCEPT !.closed = (track[u].state # "none")]]

\* Line 83: pc.Close() ends the inbound track of this endpoint, if it has one.
EndTrack(s) == [track EXCEPT ![s].closed = (track[s].state # "none")]

Close(s) ==
    /\ pc[s] = "closing"
    /\ conn' = [conn EXCEPT ![s].state = IF @ = "none" THEN "none" ELSE "closed"]
    /\ cb' = [cb EXCEPT ![s].closed = IF "state" \in conn[s].handlers THEN "pending" ELSE @]
    /\ track' = EndTrack(s)
    /\ ws' = [ws EXCEPT ![s] = "closed"]
    /\ sig' = [sig EXCEPT ![s] = NoSig]
    /\ SetPc(s, "done")
    /\ UNCHANGED <<regv, roomv, mu, req, sent, ice, nevents, fwd>>

\* ------------------------------------------- OnConnectionStateChange callback
\* The endpoint's connection fails while its session runs.
EndpointFail(s) ==
    /\ pc[s] \in {"read", "handle"}
    /\ conn[s].state = "new"
    /\ nevents < MaxEvents
    /\ nevents' = nevents + 1
    /\ conn' = [conn EXCEPT ![s].state = "failed"]
    /\ cb' = [cb EXCEPT ![s].failed = IF "state" \in conn[s].handlers THEN "pending" ELSE @]
    /\ UNCHANGED <<regv, roomv, mu, sessv, sig, sent, ice, mediav>>

\* Lines 139-140: the callback runs for state k (failed or closed) and takes
\* room.mu.
StateChangeLock(s, k) ==
    /\ cb[s][k] = "pending"
    /\ mu[req[s].room] = NoLock
    /\ mu' = [mu EXCEPT ![req[s].room].w = <<k, s>>]
    /\ cb' = [cb EXCEPT ![s][k] = "locked"]
    /\ UNCHANGED <<regv, roomv, sessv, conn, sigv, mediav>>

\* Line 141: delete(room.Listeners, pc).
DeleteAll(listeners, s) == {}

DeleteToggle(listeners, s) == IF s \in listeners THEN listeners \ {s} ELSE listeners \cup {s}

Delete(listeners, s) == listeners \ {s}

\* Lines 141-142: delete(room.Listeners, pc) and the unlock.
StateChangeDelete(s, k) ==
    /\ cb[s][k] = "locked"
    /\ Listeners' = [Listeners EXCEPT ![req[s].room] = Delete(@, s)]
    /\ mu' = [mu EXCEPT ![req[s].room] = Unlock(@)]
    /\ cb' = [cb EXCEPT ![s][k] = "none"]
    /\ UNCHANGED <<regv, Broadcaster, sessv, conn, sigv, mediav>>

\* ------------------------------------------------------------ OnTrack callback
\* Lines 105-109: the publisher's endpoint reports its inbound track; the
\* callback takes room.mu.RLock().
OnTrackRLock(p) ==
    /\ "track" \in conn[p].handlers
    /\ conn[p].state = "new"
    /\ track[p].state = "none"
    /\ nevents < MaxEvents
    /\ nevents' = nevents + 1
    /\ mu[req[p].room].w = << >>
    /\ mu' = [mu EXCEPT ![req[p].room].r = @ \cup {p}]
    /\ track' = [track EXCEPT ![p].state = "fanout"]
    /\ UNCHANGED <<regv, roomv, sessv, conn, cb, sig, sent, ice, fwd>>

\* Line 110: range room.Listeners, the keys of the captured Room's map.
FanoutTargetsAnyRoom(p) == UNION { Listeners[o] : o \in RoomObjs }

FanoutTargets(p) == Listeners[req[p].room]

\* Lines 110-113: one forwardTrack goroutine per listener in the map, then
\* RUnlock.
OnTrackFanout(p) ==
    /\ track[p].state = "fanout"
    /\ fwd' = [fwd EXCEPT ![p] = [l \in Sessions |->
                  IF l \in FanoutTargets(p) THEN [NoFwd EXCEPT !.pc = "setup"] ELSE NoFwd]]
    /\ mu' = [mu EXCEPT ![req[p].room].r = @ \ {p}]
    /\ track' = [track EXCEPT ![p].state = "drain"]
    /\ UNCHANGED <<regv, roomv, sessv, conn, cb, sigv>>

\* The publisher's peer sends the next media packet of the track.
Produce(p) ==
    /\ track[p].state # "none"
    /\ ~track[p].closed
    /\ nevents < MaxEvents
    /\ nevents' = nevents + 1
    /\ track' = [track EXCEPT ![p].produced = @ + 1,
                              ![p].queue = Append(@, Packet(track[p].produced + 1))]
    /\ UNCHANGED <<regv, roomv, mu, sessv, conn, cb, sig, sent, ice, fwd>>

\* track.ReadRTP(): every reader of the track takes the next packet off the
\* same buffer; the read fails once the track has ended.
ReadRTPReady(p) == ~track[p].closed /\ track[p].queue # << >>

\* Lines 116-121: the callback's own loop reads a packet and drops it.
DrainRead(p) ==
    /\ track[p].state = "drain"
    /\ ReadRTPReady(p)
    /\ track' = [track EXCEPT ![p].queue = Tail(@)]
    /\ UNCHANGED <<regv, roomv, mu, sessv, conn, cb, sigv, fwd>>

\* Lines 117-120: the read fails and the loop breaks.
DrainEnd(p) ==
    /\ track[p].state = "drain"
    /\ track[p].closed
    /\ track' = [track EXCEPT ![p].state = "done"]
    /\ UNCHANGED <<regv, roomv, mu, sessv, conn, cb, sigv, fwd>>

\* ---------------------------------------------------------------- forwardTrack
\* Lines 153-164: the local track is made and added to the listener's
\* endpoint; either may fail, and AddTrack fails on a closed endpoint.
ForwardSetup(p, l, ok) ==
    /\ fwd[p][l].pc = "setup"
    /\ fwd' = [fwd EXCEPT ![p][l].pc =
                  IF ok /\ conn[l].state # "closed" THEN "read" ELSE "done"]
    /\ UNCHANGED <<regv, roomv, mu, sessv, conn, cb, sigv, track>>

\* Line 169: remoteTrack.ReadRTP() returns a packet.
ForwardRead(p, l) ==
    /\ fwd[p][l].pc = "read"
    /\ ReadRTPReady(p)
    /\ fwd' = [fwd EXCEPT ![p][l].pc = "write", ![p][l].pkt = Head(track[p].queue)]
    /\ track' = [track EXCEPT ![p].queue = Tail(@)]
    /\ UNCHANGED <<regv, roomv, mu, sessv, conn, cb, sigv>>

\* Lines 169-172: remoteTrack.ReadRTP() fails and the task returns.
ForwardReadError(p, l) ==
    /\ fwd[p][l].pc = "read"
    /\ track[p].closed
    /\ fwd' = [fwd EXCEPT ![p][l].pc = "done"]
    /\ UNCHANGED <<regv, roomv, mu, sessv, conn, cb, sigv, track>>

\* The sample written for a packet: its payload length and its duration.
Sample(k) == [len |-> k.len, dur |-> k.dur]

\* Lines 174-175: localTrack.WriteSample, whose error is not looked at; the
\* write fails once the listener's endpoint is closed.
ForwardWrite(p, l) ==
    /\ fwd[p][l].pc = "write"
    /\ fwd' = [fwd EXCEPT ![p][l] =
                  IF conn[l].state = "closed"
                  THEN [@ EXCEPT !.pc = "read", !.pkt = Nil, !.werr = TRUE]
                  ELSE [@ EXCEPT !.pc = "read", !.pkt = Nil,
                                 !.out = Append(@, Sample(fwd[p][l].pkt))]]
    /\ UNCHANGED <<regv, roomv, mu, sessv, conn, cb, sigv, track>>

Next ==
    \/ createRoomLock
    \/ \E id \in JoinNames : createRoom(id)
    \/ \E s \in Sessions : joinRLock(s)
    \/ \E s \in Sessions, name \in JoinNames, role \in BOOLEAN, upOk \in BOOLEAN,
          pcOk \in BOOLEAN : joinRoom(s, name, role, upOk, pcOk)
    \/ \E s \in Sessions, txOk \in BOOLEAN : RoleCheck(s, txOk)
    \/ \E s \in Sessions : AttachLock(s)
    \/ \E s \in Sessions : Attach(s)
    \/ \E s \in Sessions, in \in Inputs : ReadMessage(s, in)
    \/ \E s \in Sessions : ReadError(s)
    \/ \E s \in Sessions : HandleFrame(s)
    \/ \E s \in Sessions, c \in BOOLEAN : OnICECandidate(s, c)
    \/ \E s \in Sessions : CandidateWrite(s)
    \/ \E s \in Sessions : Close(s)
    \/ \E s \in Sessions : EndpointFail(s)
    \/ \E s \in Sessions, k \in {"failed", "closed"} : StateChangeLock(s, k)
    \/ \E s \in Sessions, k \in {"failed", "closed"} : StateChangeDelete(s, k)
    \/ \E p \in Sessions : OnTrackRLock(p)
    \/ \E p \in Sessions : OnTrackFanout(p)
    \/ \E p \in Sessions : Produce(p)
    \/ \E p \in Sessions : DrainRead(p)
    \/ \E p \in Sessions : DrainEnd(p)
    \/ \E p \in Sessions, l \in Sessions, ok \in BOOLEAN : ForwardSetup(p, l, ok)
    \/ \E p \in Sessions, l \in Sessions : ForwardRead(p, l)
    \/ \E p \in Sessions, l \in Sessions : ForwardReadError(p, l)
    \/ \E p \in Sessions, l \in Sessions : ForwardWrite(p, l)

Spec == Init /\ [][Next]_vars

\* ------------------------------------------------------- the signaling loop
\* The value of the frame's "type" member once decoded: the word the case
\* labels of lines 210, 232 and 242 are written against.
TypeWord(f) == IF f.type.kind = "string" THEN f.type.val ELSE RawMessage(f.type)

\* Lines 209-248 entered with msgType equal to the frame's type word: the
\* body of the switch as it runs once a case label matches.
SwitchFrame(s) ==
    /\ pc[s] = "handle"
    /\ UnmarshalMap(sig[s].cur)
    /\ conn' = [conn EXCEPT ![s] = Switch(s, TypeWord(sig[s].cur), sig[s].cur, sig[s].neg)[1]]
    /\ sent' = [sent EXCEPT ![s] = Switch(s, TypeWord(sig[s].cur), sig[s].cur, sig[s].neg)[2]]
    /\ sig' = [sig EXCEPT ![s] = [NoSig EXCEPT !.dropped = sig[s].dropped \/ Dropped(s, sig[s].cur)]]
    /\ SetPc(s, AfterFrame(sig[s].cur))
    /\ UNCHANGED <<regv, roomv, mu, req, ws, cb, ice, nevents, mediav>>

\* One Room with its publisher (session 1) and one listener (session 2), both
\* inside handleSignaling at their first read: a state Spec reaches.
LoopRoomId == CHOOSE id \in randomHex(RoomIdBytes, 0) : TRUE

LoopInit ==
    /\ rooms = [n \in {LoopRoomId} |-> 1]
    /\ returned = <<LoopRoomId>>
    /\ roomsMu = NoRegLock
    /\ Broadcaster = [o \in RoomObjs |-> IF o = 1 THEN 1 ELSE Nil]
    /\ Listeners = [o \in RoomObjs |-> IF o = 1 THEN {2} ELSE {}]
    /\ mu = [o \in RoomObjs |-> NoLock]
    /\ pc = [s \in Sessions |-> IF s \in {1, 2} THEN "read" ELSE "idle"]
    /\ req = [s \in Sessions |->
                IF s \in {1, 2}
                THEN [name |-> LoopRoomId, isBroadcaster |-> (s = 1), room |-> 1, status |-> 101]
                ELSE NoReq]
    /\ ws = [s \in Sessions |-> IF s \in {1, 2} THEN "open" ELSE "none"]
    /\ conn = [s \in Sessions |->
                 IF s = 1 THEN [NoConn EXCEPT !.state = "new", !.handlers = {"track", "ice"}]
                 ELSE IF s = 2 THEN [NoConn EXCEPT !.state = "new", !.handlers = {"state", "ice"}]
                 ELSE NoConn]
    /\ cb = [s \in Sessions |-> NoCb]
    /\ sig = [s \in Sessions |-> NoSig]
    /\ sent = [s \in Sessions |-> << >>]
    /\ ice = [s \in Sessions |-> "none"]
    /\ nevents = 0
    /\ track = [s \in Sessions |-> NoTrack]
    /\ fwd = [s \in Sessions |-> [l \in Sessions |-> NoFwd]]

LoopNext ==
    \/ \E s \in Sessions, in \in Inputs : ReadMessage(s, in)
    \/ \E s \in Sessions : HandleFrame(s)
    \/ \E s \in Sessions : SwitchFrame(s)
    \/ \E s \in Sessions, c \in BOOLEAN : OnICECandidate(s, c)
    \/ \E s \in Sessions : CandidateWrite(s)
    \/ \E s \in Sessions : ReadError(s)
    \/ \E s \in Sessions : Close(s)

\* The signaling loops of the two sessions, with the switch entered either
\* as line 207 computes msgType (HandleFrame) or with the frame's type word
\* (SwitchFrame).
LoopSpec == LoopInit /\ [][LoopNext]_vars

\* ------------------------------------------------------------- the fan-out
\* One Room with its publisher (session 1) and two listeners (sessions 2 and
\* 3), all inside handleSignaling; the publisher's track has been reported
\* and fanned out, and both forwardTrack goroutines are about to start.
FanInit ==
    /\ rooms = [n \in {LoopRoomId} |-> 1]
    /\ returned = <<LoopRoomId>>
    /\ roomsMu = NoRegLock
    /\ Broadcaster = [o \in RoomObjs |-> IF o = 1 THEN 1 ELSE Nil]
    /\ Listeners = [o \in RoomObjs |-> IF o = 1 THEN {2, 3} ELSE {}]
    /\ mu = [o \in RoomObjs |-> NoLock]
    /\ pc = [s \in Sessions |-> IF s \in {1, 2, 3} THEN "read" ELSE "idle"]
    /\ req = [s \in Sessions |->
                IF s \in {1, 2, 3}
                THEN [name |-> LoopRoomId, isBroadcaster |-> (s = 1), room |-> 1, status |-> 101]
                ELSE NoReq]
    /\ ws = [s \in Sessions |-> IF s \in {1, 2, 3} THEN "open" ELSE "none"]
    /\ conn = [s \in Sessions |->
                 IF s = 1 THEN [NoConn EXCEPT !.state = "new", !.handlers = {"track", "ice"}]
                 ELSE IF s \in {2, 3} THEN [NoConn EXCEPT !.state = "new", !.handlers = {"state", "ice"}]
                 ELSE NoConn]
    /\ cb = [s \in Sessions |-> NoCb]
    /\ sig = [s \in Sessions |-> NoSig]
    /\ sent = [s \in Sessions |-> << >>]
    /\ ice = [s \in Sessions |-> "none"]
    /\ nevents = 0
    /\ track = [s \in Sessions |-> IF s = 1 THEN [NoTrack EXCEPT !.state = "drain"] ELSE NoTrack]
    /\ fwd = [s \in Sessions |-> [l \in Sessions |->
                 IF s = 1 /\ l \in {2, 3} THEN [NoFwd EXCEPT !.pc = "setup"] ELSE NoFwd]]

FanNext ==
    \/ \E s \in Sessions : ReadError(s)
    \/ \E s \in Sessions : Close(s)
    \/ \E s \in Sessions : EndpointFail(s)
    \/ \E s \in Sessions, k \in {"failed", "closed"} : StateChangeLock(s, k)
    \/ \E s \in Sessions, k \in {"failed", "closed"} : StateChangeDelete(s, k)
    \/ \E p \in Sessions : Produce(p)
    \/ \E p \in Sessions : DrainRead(p)
    \/ \E p \in Sessions : DrainEnd(p)
    \/ \E p \in Sessions, l \in Sessions, ok \in BOOLEAN : ForwardSetup(p, l, ok)
    \/ \E p \in Sessions, l \in Sessions : ForwardRead(p, l)
    \/ \E p \in Sessions, l \in Sessions : ForwardReadError(p, l)
    \/ \E p \in Sessions, l \in Sessions : ForwardWrite(p, l)

\* The ways the three sessions and the two forwarding tasks can end, and the
\* packets forwarded meanwhile.
FanSpec == FanInit /\ [][FanNext]_vars

\* The Go scheduler runs every runnable goroutine: a handler that returns
\* runs its deferred calls, a callback that was invoked takes the lock and
\* gives it back, and whoever holds a Room's lock releases it.  The peers and
\* the endpoints (frames, candidates, packets, failures, read errors, new
\* requests) owe nothing.
Fairness ==
    /\ WF_vars(\E id \in JoinNames : createRoom(id))
    /\ \A s \in Joiners : WF_vars(\E name \in JoinNames, role \in BOOLEAN, upOk \in BOOLEAN,
                                      pcOk \in BOOLEAN : joinRoom(s, name, role, upOk, pcOk))
    /\ \A s \in Joiners : WF_vars(Attach(s))
    /\ \A s \in Joiners : WF_vars(Close(s))
    /\ \A s \in Joiners, k \in {"failed", "closed"} : WF_vars(StateChangeLock(s, k))
    /\ \A s \in Joiners, k \in {"failed", "closed"} : WF_vars(StateChangeDelete(s, k))
    /\ \A p \in Joiners : WF_vars(OnTrackFanout(p))

FairSpec == Spec /\ Fairness

\* ------------------------------------------------------------------- claims
Range(f) == { f[i] : i \in DOMAIN f }

IsPublisher(s) == req[s].isBroadcaster /\ "track" \in conn[s].handlers
IsSubscriber(s) == ~req[s].isBroadcaster /\ "state" \in conn[s].handlers
Ended(s) == pc[s] \in {"closing", "done"}

\* C1: of the role=broadcaster joins on one Room, at most one is ever accepted
\* as its publisher (attached as Room.Broadcaster); the others are rejected.
C1_OnePublisherPerRoom ==
    \A s \in Sessions, u \in Sessions :
        IsPublisher(s) /\ IsPublisher(u) /\ req[s].room = req[u].room => s = u

\* C2: in a publisher session, handling a well-formed offer whose negotiation
\* calls succeed sends exactly one answer frame before the next read.
C2_OfferAnswered ==
    [][\A s \in Sessions :
          (/\ pc[s] = "handle" /\ pc'[s] # "handle"
           /\ req[s].isBroadcaster
           /\ sig[s].cur = OfferFrame /\ sig[s].neg = "ok")
          => sent'[s] = Append(sent[s], [type |-> "answer", body |-> "sdp"])]_vars

\* C3: a subscriber that was in the Room when the track was reported, and
\* whose endpoint is alive, has been sent every packet the publisher produced
\* on the track, once each and in order, whenever the track's buffer is empty
\* and its forwarding task waits for the next packet.
C3_EveryPacketForwarded ==
    \A p \in Sessions, l \in Sessions :
        (/\ fwd[p][l].pc = "read" /\ track[p].queue = << >>
         /\ conn[l].state = "new" /\ ~track[p].closed)
        => fwd[p][l].out = [k \in 1..track[p].produced |->
                               [len |-> Packet(k).len, dur |-> Packet(k).dur]]

\* C4: once a publisher session has ended and nothing of it is left to run,
\* its endpoint is no longer the Room's publisher.
C4_PublisherDetached ==
    \A s \in Sessions, o \in RoomObjs :
        pc[s] = "done" /\ cb[s] = NoCb => Broadcaster[o] # s

\* C5: a subscriber whose session has ended (its transport read failed) or
\* whose endpoint is failed or closed is eventually out of the Room's
\* subscriber set for good, and the removal takes out that endpoint only:
\* every other member and the publisher stay as they were.
C5_SubscriberRemoved ==
    /\ \A s \in Joiners :
          [](IsSubscriber(s) /\ (Ended(s) \/ conn[s].state \in {"failed", "closed"})
                => <>[](\A o \in RoomObjs : s \notin Listeners[o]))
    /\ [][\A s \in Sessions, k \in {"failed", "closed"} :
             cb[s][k] = "locked" /\ cb'[s][k] # "locked"
             => /\ \A o \in RoomObjs : Listeners'[o] \ {s} = Listeners[o] \ {s}
                /\ s \notin Listeners'[req[s].room]
                /\ Broadcaster' = Broadcaster]_vars

C5_Witness ==
    \E s \in Sessions, l \in Sessions :
        /\ s # l /\ IsSubscriber(s) /\ pc[s] = "done" /\ cb[s] = NoCb
        /\ s \notin Listeners[req[s].room]
        /\ l \in Listeners[req[s].room]

\* C6: a forwarding task whose write to the subscriber has failed has
\* terminated.
C6_ForwarderStopsOnWriteError ==
    \A p \in Sessions, l \in Sessions : fwd[p][l].werr => fwd[p][l].pc = "done"

\* C7: a role=broadcaster join that finds the Room with a publisher is sent
\* the one frame {"error":"Room already has a broadcaster"} and ends: no
\* callback is registered, no frame is read, the Room is left as it was.
Rejected(s) == \E i \in DOMAIN sent[s] : sent[s][i].type = "error"

C7_DuplicateRejected ==
    /\ [](\A s \in Sessions :
            Rejected(s) =>
                /\ sent[s] = <<[type |-> "error", body |-> "Room already has a broadcaster"]>>
                /\ Ended(s)
                /\ conn[s].handlers = {} /\ sig[s] = NoSig /\ track[s] = NoTrack
                /\ \A l \in Sessions : fwd[s][l] = NoFwd
                /\ \A o \in RoomObjs : Broadcaster[o] # s /\ s \notin Listeners[o])
    /\ [][\A s \in Sessions :
             (/\ pc[s] = "role" /\ pc'[s] # "role"
              /\ req[s].isBroadcaster /\ Broadcaster[req[s].room] # Nil)
             => /\ Rejected(s)' /\ pc'[s] = "closing"
                /\ Broadcaster' = Broadcaster /\ Listeners' = Listeners]_vars

C7_Witness ==
    \E s \in Sessions :
        /\ pc[s] = "done" /\ Rejected(s) /\ ws[s] = "closed"
        /\ Broadcaster[req[s].room] \notin {Nil, s}

\* C8: handling a malformed or role-inapplicable frame leaves the session in
\* its loop, ready to read, with its transport, its endpoint and the frames
\* sent as they were; the loop is left only through a failed read.
C8_BadFrameKeepsSession ==
    /\ [][\A s \in Sessions :
             pc[s] = "handle" /\ pc'[s] # "handle" /\ Dropped(s, sig[s].cur)
             => /\ pc'[s] = "read" /\ ws'[s] = "open"
                /\ conn'[s] = conn[s] /\ sent'[s] = sent[s]]_vars
    /\ [][\A s \in Sessions :
             pc[s] = "handle" /\ pc'[s] # "handle" => pc'[s] = "read"]_vars

\* a valid frame is in hand in a session that dropped a frame before
C8_Witness ==
    \E s \in Sessions :
        /\ sig[s].dropped /\ pc[s] = "handle" /\ ~Dropped(s, sig[s].cur)

\* C9: a join finds a Room exactly if its id was returned by an earlier
\* createRoom; otherwise it is answered 404, with no transport, no endpoint
\* and no change to the registry or to any Room.
C9_JoinFindsCreatedRooms ==
    /\ [][\A s \in Sessions :
             pc[s] = "lookup" /\ pc'[s] # "lookup"
             => /\ (req'[s].status # 404) <=> (req'[s].name \in Range(returned))
                /\ req'[s].status = 404
                   => /\ pc'[s] = "done" /\ ws'[s] = "none" /\ conn'[s] = NoConn
                      /\ UNCHANGED <<rooms, returned, Broadcaster, Listeners>>]_vars
    /\ [](\A s \in Sessions :
            req[s].status = 404
            => /\ pc[s] = "done" /\ ws[s] = "none" /\ conn[s] = NoConn
               /\ \A o \in RoomObjs : Broadcaster[o] # s /\ s \notin Listeners[o])

C9_Witness ==
    \E s \in Sessions, u \in Sessions :
        /\ req[s].status = 404 /\ returned # << >>
        /\ req[u].status = 101 /\ req[u].name \in Range(returned)

\* C10: the ids createRoom has returned are pairwise distinct.
C10_DistinctIds ==
    \A i \in DOMAIN returned, j \in DOMAIN returned : i # j => returned[i] # returned[j]

\* C11: a state callback that deletes a subscriber that is not in the Room's
\* subscriber set (the failed callback removed it before the closed one ran)
\* changes neither any Room's subscriber set nor any Room's publisher, and the
\* endpoint stays out of the set: deleting twice is deleting once.
C11_AbsentRemovalNoOp ==
    [][\A s \in Sessions, k \in {"failed", "closed"} :
          (/\ cb[s][k] = "locked" /\ cb'[s][k] # "locked"
           /\ s \notin Listeners[req[s].room])
          => /\ Listeners' = Listeners /\ Broadcaster' = Broadcaster
             /\ s \notin Listeners'[req[s].room]]_vars

\* the closed callback holds the lock for its delete after the failed one
\* removed the endpoint, while another subscriber is in the set
C11_Witness ==
    \E s \in Sessions, l \in Sessions :
        /\ IsSubscriber(s) /\ cb[s].closed = "locked" /\ cb[s].failed = "none"
        /\ conn[s].state = "closed"
        /\ s \notin Listeners[req[s].room] /\ l \in Listeners[req[s].room]

\* C12: an endpoint is in the subscriber set of at most one Room, and only of
\* the Room its request joined; an endpoint that is a Room's publisher is in
\* no subscriber set and a listener's endpoint is no Room's publisher; the
\* role a request joined with never changes.
C12_OneRoomOneRole ==
    /\ [](\A s \in Sessions, o \in RoomObjs :
            /\ s \in Listeners[o] => o = req[s].room /\ ~req[s].isBroadcaster
            /\ Broadcaster[o] = s => /\ o = req[s].room /\ req[s].isBroadcaster
                                     /\ \A q \in RoomObjs : s \notin Listeners[q])
    /\ [][\A s \in Sessions :
             req[s].status = 101 => /\ req'[s].isBroadcaster = req[s].isBroadcaster
                                    /\ req'[s].room = req[s].room]_vars

\* two Rooms exist; one has a publisher, and a listener is in a subscriber set
C12_Witness ==
    \E s \in Sessions, u \in Sessions, o \in RoomObjs, q \in RoomObjs :
        /\ NumRoomObjs = 2 /\ o # q
        /\ Broadcaster[o] = s /\ u \in Listeners[q] /\ Listeners[o] = {}

\* C13: when the OnTrack callback of publisher p fans its track out, a
\* forwarding task is started for every endpoint that is in the Room's
\* subscriber set and for no other; the set does not change between the read
\* lock and the fan-out; and no task for that track is started at any other
\* time, so an endpoint that attaches later has none.
TaskStarted(p, l) == fwd[p][l].pc # "none"

C13_FanoutToSnapshot ==
    /\ [][\A p \in Sessions :
             /\ track[p].state = "fanout" /\ track'[p].state = "fanout"
                => Listeners'[req[p].room] = Listeners[req[p].room]
             /\ track[p].state = "fanout" /\ track'[p].state # "fanout"
                => \A l \in Sessions :
                      /\ ~TaskStarted(p, l)
                      /\ TaskStarted(p, l)' <=> l \in Listeners[req[p].room]
                      /\ TaskStarted(p, l)' => fwd'[p][l].out = << >>
             /\ track[p].state # "fanout"
                => \A l \in Sessions : TaskStarted(p, l)' <=> TaskStarted(p, l)]_vars
    /\ [](\A p \in Sessions, l \in Sessions :
            TaskStarted(p, l) => IsPublisher(p) /\ IsSubscriber(l) /\ req[l].room = req[p].room)

\* the fan-out started a task for the one listener in the publisher's Room
C13_Witness ==
    \E p \in Sessions, l \in Sessions :
        /\ track[p].state = "drain" /\ fwd[p][l].pc = "setup"
        /\ l \in Listeners[req[p].room] /\ ~TaskStarted(p, p)

\* a listener attached after the fan-out and has no task for the track
C13_LateWitness ==
    \E p \in Sessions, l \in Sessions :
        /\ track[p].state = "drain" /\ l \in Listeners[req[p].room]
        /\ ~TaskStarted(p, l)

RoleInapplicable(s, f) ==
    /\ UnmarshalMap(f)
    /\ \/ TypeWord(f) = "offer" /\ ~req[s].isBroadcaster
       \/ TypeWord(f) = "answer" /\ req[s].isBroadcaster

C15_RoleInapplicableNoOp ==
    [][\A s \in Sessions :
          pc[s] = "handle" /\ pc'[s] # "handle" /\ RoleInapplicable(s, sig[s].cur)
          => /\ conn' = conn /\ sent' = sent /\ ws' = ws /\ req' = req
             /\ pc' = [pc EXCEPT ![s] = "read"]
             /\ UNCHANGED <<rooms, returned, Broadcaster, Listeners, mu, cb, track, fwd>>]_vars

\* a listener's session holds a well-formed offer after it dropped a frame,
\* with nothing negotiated and nothing sent
C15_Witness ==
    \E s \in Sessions :
        /\ IsSubscriber(s) /\ pc[s] = "handle" /\ sig[s].dropped
        /\ sig[s].cur = OfferFrame /\ sig[s].neg = "ok"
        /\ ~conn[s].remote /\ ~conn[s].local /\ sent[s] = << >>

\* C16: a step by which session s ends (its read fails, its deferred calls
\* run, its endpoint fails, its state callback runs) changes no other
\* session, no other endpoint's membership of any Room, no Room's publisher
\* other than s, no other session's track and no forwarding task; a step by
\* which a forwarding task ends changes no other task, no session, no track
\* and no Room.
SessionEnds(s) ==
    \/ pc[s] \in {"read", "handle"} /\ pc'[s] = "closing"
    \/ pc[s] = "closing" /\ pc'[s] = "done"
    \/ conn[s].state = "new" /\ conn'[s].state = "failed"
    \/ cb'[s] # cb[s]

TaskEnds(p, l) == fwd[p][l].pc \notin {"none", "done"} /\ fwd'[p][l].pc = "done"

HoldsRoomLock(k, s) == \E o \in RoomObjs : mu[o].w = <<k, s>>

C17_LocksNotHeldAcrossWaits ==
    /\ [](/\ \A o \in RoomObjs :
              /\ mu[o].w # << >> => mu[o].r = {}
              /\ mu[o].w # << >>
                 => /\ mu[o].w[1] \in {"join", "failed", "closed"}
                    /\ req[mu[o].w[2]].room = o
              /\ \A p \in mu[o].r : track[p].state = "fanout" /\ req[p].room = o
          /\ \A s \in Sessions :
              /\ HoldsRoomLock("join", s) <=> pc[s] = "attach"
              /\ \A k \in {"failed", "closed"} : HoldsRoomLock(k, s) <=> cb[s][k] = "locked"
              /\ (\E o \in RoomObjs : s \in mu[o].r) <=> track[s].state = "fanout"
              /\ s \in roomsMu.r <=> pc[s] = "lookup"
          /\ roomsMu.w => roomsMu.r = {})
    /\ <>[](roomsMu = NoRegLock /\ \A o \in RoomObjs : mu[o] = NoLock)

\* a state callback holds the Room's lock and a createRoom holds the
\* registry's, while another session waits in its transport read
C17_Witness ==
    \E s \in Sessions, u \in Sessions :
        /\ s # u /\ roomsMu.w /\ HoldsRoomLock("closed", s)
        /\ pc[u] = "read" /\ req[u].room = req[s].room

\* C18: a session reads its next frame only when the frame before it has
\* been handled, and handling a valid frame whose endpoint calls succeed has
\* that frame's effect before the loop reads again: an offer sets both
\* descriptions and sends the answer, an answer sets the remote description,
\* a candidate is added to the endpoint.  No valid frame is passed over.
C18_FramesTakeEffectInOrder ==
    [][\A s \in Sessions :
          /\ pc[s] = "read" /\ pc'[s] = "handle"
             => sig[s].cur = NoFrame /\ conn'[s] = conn[s] /\ sent'[s] = sent[s]
          /\ (/\ pc[s] = "handle" /\ pc'[s] # "handle"
              /\ ~Dropped(s, sig[s].cur) /\ sig[s].neg = "ok")
             => /\ pc'[s] = "read"
                /\ TypeWord(sig[s].cur) = "offer"
                   => /\ conn'[s].remote /\ conn'[s].local
                      /\ sent'[s] = Append(sent[s], [type |-> "answer", body |-> "sdp"])
                /\ TypeWord(sig[s].cur) = "answer" => conn'[s].remote
                /\ TypeWord(sig[s].cur) = "candidate"
                   => conn'[s].candidates = conn[s].candidates + 1]_vars

\* C19: while the candidate callback of a session is in its write, no other
\* frame is written to that session's transport; and the callback's write is
\* never made on a transport the session has closed.
C19_WritesExclusiveBeforeClose ==
    [][\A s \in Sessions :
          /\ ice[s] = "writing" /\ ice'[s] = "writing" => sent'[s] = sent[s]
          /\ ice[s] = "writing" /\ ice'[s] # "writing" => ws[s] = "open"]_vars

\* C20: on a listener's session no local description is ever set on the
\* endpoint, and every frame written to its transport is a candidate frame:
\* no offer, no answer (and no error frame) is ever sent to a listener.
C20_ListenerGetsOnlyCandidates ==
    \A s \in Sessions :
        req[s].status = 101 /\ ~req[s].isBroadcaster
        => /\ ~conn[s].local
           /\ \A i \in DOMAIN sent[s] : sent[s][i] = [type |-> "candidate", body |-> "candidate"]

\* a listener's session has been through a frame it dropped and a frame it
\* took or a candidate of its own, and a candidate frame was written to it
C20_Witness ==
    \E s \in Sessions :
        /\ IsSubscriber(s) /\ sig[s].dropped /\ pc[s] = "read"
        /\ sent[s] # << >> /\ ~conn[s].local
====
